---- MODULE Spec2Model ----
(***************************************************************************)
(* Model of src/connectors/star-rating/connectStarRating.js: the widget    *)
(* returned by connectStarRating(renderFn)(widgetParams), driven by its    *)
(* host (init, render) and by the callbacks it hands to renderFn (refine,  *)
(* createURL).                                                             *)
(*                                                                         *)
(* Rating values travel as decimal strings (item.value, the helper's       *)
(* stored refinement values) and are converted with Number(...) /          *)
(* String(...) where the code converts them.  Facet names are numbers      *)
(* given in half units (h stands for h/2) so that Math.round has work to   *)
(* do.                                                                     *)
(*                                                                         *)
(* The host calls init once and then render once per search response; a    *)
(* search is in flight after init (the host's first search) and after      *)
(* every helper.search() of refine.  A response to a search issued for     *)
(* another widget re-renders with the same refinements for attributeName   *)
(* and so yields no payload a response modelled here does not yield.       *)
(* The helper's refinements for attributeName are mutated by this widget   *)
(* alone and start empty.                                                  *)
(***************************************************************************)
EXTENDS Integers, Sequences, FiniteSets, TLC

\* ------------------------------------------------------------------ bounds
\* Largest configured `max` explored (widgetParams.max, an integer >= 1).
MaxMax == 3
\* Longest facet-value list returned by results.getFacetValues.
MaxFacets == 2
\* Largest per-facet count.
MaxCount == 1

VARIABLES
  max,          \* widgetParams.max, fixed at construction (line 109)
  pc,           \* "constructed" before init, "mounted" after it
  refinements,  \* the helper's refinement values for attributeName, in the
                \* order helper.getRefinements returns them (strings)
  urlState,     \* the state snapshot captured by the createURL closure last
                \* handed to renderFn (line 130 / line 176)
  searching,    \* TRUE while the host has a search in flight whose results
                \* it will hand to render
  call,         \* the last handler invocation: [op, arg, pre], pre being the
                \* helper's refinement values when it was entered
  helperLog,    \* the mutating helper calls and searches that invocation made,
                \* each with the refinement state right after it
  rendered,     \* the payload that invocation handed to renderFn
  results,      \* the `results` that invocation was given (render only)
  urlArg        \* the state that invocation handed to the URL builder

vars == <<max, pc, refinements, urlState, searching, call, helperLog, rendered, results, urlArg>>

\* ------------------------------------------------------------ JS primitives
\* `undefined` as the value of refinedStar (line 193).
Undefined == -1

\* The numbers a rating string of the model can denote.
Numerals == 0..(MaxMax + 3)

\* String(n) / '' + n for a non-negative integer.
String(n) == ToString(n)

\* Number(s) for a decimal string.
Number(s) == CHOOSE n \in Numerals : ToString(n) = s

\* JS falsiness of a refinedStar value: undefined and 0 are falsy.
Falsy(x) == x = Undefined \/ x = 0

\* Math.round of a number given in half units: floor(x + 0.5).
MathRound(h) == (h + 1) \div 2

\* ------------------------------------------------------------------ helper
\* The helper as seen by one handler invocation: its refinement list and the
\* log of mutating calls / searches made on it.
NewHelper(refs) == [refs |-> refs, log |-> <<>>]

\* helper.getRefinements(attributeName): the refinement values, in order.
GetRefinements(helper) == helper.refs

\* helper.clearRefinements(attributeName)
ClearRefinements(helper) ==
  [refs |-> <<>>,
   log  |-> Append(helper.log, [fn |-> "clearRefinements", refs |-> <<>>])]

\* helper.addDisjunctiveFacetRefinement(attributeName, val): the value is
\* stored as a string; an already refined value is not added twice.
AddDisjunctiveFacetRefinement(helper, val) ==
  LET s == String(val)
      r == IF \E i \in 1..Len(helper.refs) : helper.refs[i] = s
           THEN helper.refs ELSE Append(helper.refs, s)
  IN [refs |-> r,
      log  |-> Append(helper.log,
                      [fn |-> "addDisjunctiveFacetRefinement", refs |-> r])]

\* helper.search(): issues a query for the helper's current state.
Search(helper) ==
  [helper EXCEPT !.log = Append(@, [fn |-> "search", refs |-> helper.refs])]

\* state.toggleRefinement(attributeName, facetValue) on an immutable state
\* snapshot: removes the one value when it is refined, adds it otherwise.
StateToggleRefinement(state, facetValue) ==
  IF \E i \in 1..Len(state) : state[i] = facetValue
  THEN SelectSeq(state, LAMBDA x : x # facetValue)
  ELSE Append(state, facetValue)

\* ------------------------------------------------------- _getRefinedStar
\* The forEach of lines 195-199, from position i with the running refinedStar.
RECURSIVE RefinedStarFrom(_, _, _)
RefinedStarFrom(rs, i, refinedStar) ==
  IF i > Len(rs) THEN refinedStar
  ELSE RefinedStarFrom(rs, i + 1,
         IF Falsy(refinedStar) \/ Number(rs[i]) < refinedStar
         THEN Number(rs[i]) ELSE refinedStar)

\* _getRefinedStar without the comparison: each value overwrites refinedStar.
GetRefinedStarLast(helper) ==
  IF GetRefinements(helper) = <<>> THEN Undefined
  ELSE Number(GetRefinements(helper)[Len(GetRefinements(helper))])

\* _getRefinedStar (lines 192-201)
GetRefinedStar(helper) == RefinedStarFrom(GetRefinements(helper), 1, Undefined)

\* ------------------------------------------------------ _toggleRefinement
\* The for loop of lines 185-187.
RECURSIVE AddFrom(_, _, _)
AddFrom(helper, val, m) ==
  IF val <= m
  THEN AddFrom(AddDisjunctiveFacetRefinement(helper, val), val + 1, m)
  ELSE helper

\* _toggleRefinement with the search issued before the values are re-added.
ToggleRefinementSearchFirst(helper, facetValue, m) ==
  LET isRefined == GetRefinedStar(helper) = Number(facetValue)
      searched  == Search(ClearRefinements(helper))
  IN IF ~isRefined THEN AddFrom(searched, Number(facetValue), m) ELSE searched

\* _toggleRefinement without the clearRefinements call when toggling on.
ToggleRefinementNoClear(helper, facetValue, m) ==
  LET isRefined == GetRefinedStar(helper) = Number(facetValue)
  IN Search(IF ~isRefined THEN AddFrom(helper, Number(facetValue), m)
            ELSE ClearRefinements(helper))

\* _toggleRefinement (lines 181-190)
ToggleRefinement(helper, facetValue, m) ==
  LET isRefined == GetRefinedStar(helper) = Number(facetValue)
      cleared   == ClearRefinements(helper)
      added     == IF ~isRefined THEN AddFrom(cleared, Number(facetValue), m)
                   ELSE cleared
  IN Search(added)

\* ------------------------------------------------------------------ render
\* Lines 146-148 without the loop: the count is added at index v alone.
AddDownOnlyAt(allValues, v, count) ==
  IF v >= 1 THEN [allValues EXCEPT ![v] = @ + count] ELSE allValues

\* Lines 146-148: add `count` to allValues[v] for v = val down to 1.
RECURSIVE AddDown(_, _, _)
AddDown(allValues, v, count) ==
  IF v >= 1
  THEN AddDown([allValues EXCEPT ![v] = @ + count], v - 1, count)
  ELSE allValues

\* Lines 141-149: the forEach over the facet values, from position i.
RECURSIVE CountFrom(_, _, _, _)
CountFrom(facets, i, allValues, m) ==
  IF i > Len(facets) THEN allValues
  ELSE LET val == MathRound(facets[i].name)
       IN CountFrom(facets, i + 1,
            IF val = 0 \/ val > m THEN allValues
            ELSE AddDown(allValues, val, facets[i].count),
            m)

\* Lines 137-149: the cumulative-count table.
AllValues(facets, m) == CountFrom(facets, 1, [v \in 0..m |-> 0], m)

\* Line 153 without `star !== refinedStar`.
SkipBucketActiveToo(refinedStar, star, count) ==
  ~Falsy(refinedStar) /\ count = 0

\* Line 153: the test that skips a bucket.
SkipBucket(refinedStar, star, count) ==
  ~Falsy(refinedStar) /\ star # refinedStar /\ count = 0

\* Lines 158-168: one emitted item.
Item(star, count, refinedStar, m) ==
  [stars     |-> [i \in 1..m |-> i <= star],
   name      |-> String(star),
   value     |-> String(star),
   count     |-> count,
   isRefined |-> refinedStar = star]

\* Lines 151-169: the loop over star, from `star` down to 1.
RECURSIVE FacetValuesFrom(_, _, _, _, _)
FacetValuesFrom(star, allValues, refinedStar, m, facetValues) ==
  IF star < 1 THEN facetValues
  ELSE FacetValuesFrom(star - 1, allValues, refinedStar, m,
         IF SkipBucket(refinedStar, star, allValues[star]) THEN facetValues
         ELSE Append(facetValues, Item(star, allValues[star], refinedStar, m)))

\* Line 151 starting at max instead of max - 1.
FirstStarFromMax(m) == m

\* The first star of the loop of line 151.
FirstStar(m) == m - 1

FacetValues(facets, helper, m) ==
  FacetValuesFrom(FirstStar(m), AllValues(facets, m), GetRefinedStar(helper),
                  m, <<>>)

\* --------------------------------------------------------------- inputs
\* Values a caller may pass to refine / createURL: item.value strings, and
\* the out-of-range ratings 0 and max + 1.
FacetValueInputs(m) == {String(n) : n \in 0..(m + 1)}

\* Facet names, in half units: the integers 0 .. max + 1, and -1, 0.5 and
\* max + 0.5 (which round to -1, 1 and max + 1).
FacetNames(m) == {-2, 1, 2 * m + 1} \cup {2 * n : n \in 0..(m + 1)}

\* The names of a set, smallest first.
RECURSIVE Ascending(_)
Ascending(S) ==
  IF S = {} THEN <<>>
  ELSE LET lo == CHOOSE x \in S : \A y \in S : x <= y
       IN <<lo>> \o Ascending(S \ {lo})

\* results.getFacetValues(attributeName): at most MaxFacets facet values
\* {name, count}, each name once, listed by ascending name.
FacetLists(m) ==
  UNION {{[i \in 1..Cardinality(S) |->
             [name |-> Ascending(S)[i], count |-> c[Ascending(S)[i]]]]
          : c \in [S -> 0..MaxCount]}
         : S \in {T \in SUBSET FacetNames(m) : Cardinality(T) <= MaxFacets}}

\* The facet lists of each configuration, computed once.
FacetListsOf == [m \in 1..MaxMax |-> FacetLists(m)]

\* results.nbHits: no hit, or some.
NbHits == {0, 1}

NoCall == [op |-> "none", arg |-> "", pre |-> <<>>]
NoPayload == [items |-> <<>>, hasNoResults |-> TRUE, isFirstRendering |-> TRUE]
NoResults == [facets |-> <<>>, nbHits |-> 0]

\* ------------------------------------------------------------------ actions
\* The widget as built by the factory (lines 106-116): max is a positive
\* integer, no handler has run, the helper holds no refinement.
Init ==
  /\ max \in 1..MaxMax
  /\ pc = "constructed"
  /\ refinements = <<>>
  /\ urlState = <<>>
  /\ searching = FALSE
  /\ call = NoCall
  /\ helperLog = <<>>
  /\ rendered = NoPayload
  /\ results = NoResults
  /\ urlArg = <<>>

\* init (lines 121-133)
InitWidget ==
  LET helper == NewHelper(refinements)
  IN /\ pc = "constructed"
     /\ pc' = "mounted"
     /\ searching' = TRUE
     /\ refinements' = helper.refs
     /\ helperLog' = helper.log
     /\ urlState' = helper.refs
     /\ rendered' = [items |-> <<>>, hasNoResults |-> TRUE,
                     isFirstRendering |-> TRUE]
     /\ call' = [op |-> "init", arg |-> "", pre |-> refinements]
     /\ results' = NoResults
     /\ urlArg' = <<>>
     /\ UNCHANGED max

\* render (lines 135-179)
Render(facets, nbHits) ==
  LET helper == NewHelper(refinements)
  IN /\ pc = "mounted"
     /\ searching
     /\ searching' = FALSE
     /\ refinements' = helper.refs
     /\ helperLog' = helper.log
     /\ urlState' = helper.refs
     /\ rendered' = [items |-> FacetValues(facets, helper, max),
                     hasNoResults |-> nbHits = 0,
                     isFirstRendering |-> FALSE]
     /\ call' = [op |-> "render", arg |-> "", pre |-> refinements]
     /\ results' = [facets |-> facets, nbHits |-> nbHits]
     /\ urlArg' = <<>>
     /\ UNCHANGED <<max, pc>>

\* refine(facetValue): the bound _toggleRefinement (lines 122, 181-190)
Refine(facetValue) ==
  LET helper == ToggleRefinement(NewHelper(refinements), facetValue, max)
  IN /\ pc = "mounted"
     /\ refinements' = helper.refs
     /\ helperLog' = helper.log
     /\ searching' = (searching \/ \E i \in 1..Len(helper.log) :
                                      helper.log[i].fn = "search")
     /\ call' = [op |-> "refine", arg |-> facetValue, pre |-> refinements]
     /\ rendered' = NoPayload
     /\ results' = NoResults
     /\ urlArg' = <<>>
     /\ UNCHANGED <<max, pc, urlState>>

\* createURL(facetValue) toggling the live helper (helper.toggleRefinement)
\* instead of the captured snapshot.
CreateURLOnHelper(facetValue) ==
  /\ pc = "mounted"
  /\ urlArg' = StateToggleRefinement(refinements, facetValue)
  /\ refinements' = StateToggleRefinement(refinements, facetValue)
  /\ helperLog' = <<>>
  /\ call' = [op |-> "createURL", arg |-> facetValue, pre |-> refinements]
  /\ rendered' = NoPayload
  /\ results' = NoResults
  /\ UNCHANGED <<max, pc, urlState, searching>>

\* createURL(facetValue): the closure of line 123 over the captured snapshot
CreateURL(facetValue) ==
  LET helper == NewHelper(refinements)
  IN /\ pc = "mounted"
     /\ urlArg' = StateToggleRefinement(urlState, facetValue)
     /\ refinements' = helper.refs
     /\ helperLog' = helper.log
     /\ call' = [op |-> "createURL", arg |-> facetValue, pre |-> refinements]
     /\ rendered' = NoPayload
     /\ results' = NoResults
     /\ UNCHANGED <<max, pc, urlState, searching>>

\* The render disjunct tests `searching` before it draws the results.
Next ==
  \/ InitWidget
  \/ /\ searching
     /\ \E facets \in FacetListsOf[max], nbHits \in NbHits : Render(facets, nbHits)
  \/ \E facetValue \in FacetValueInputs(max) : Refine(facetValue)
  \/ \E facetValue \in FacetValueInputs(max) : CreateURL(facetValue)

Spec == Init /\ [][Next]_vars

\* ------------------------------------------------------------------ claims
\* The integers T, T + 1, ..., m as the helper stores them.
RangeFrom(T, m) == [i \in 1..(m - T + 1) |-> String(T + i - 1)]

\* The numeric values of a refinement list.
Values(refs) == {Number(refs[i]) : i \in 1..Len(refs)}

\* The active threshold of the current refinement state, as _getRefinedStar
\* derives it.
ActiveStar == GetRefinedStar(NewHelper(refinements))

\* The sum of the counts of the facets whose rounded value lies in star..m.
RECURSIVE AtLeast(_, _, _)
AtLeast(facets, star, m) ==
  IF facets = <<>> THEN 0
  ELSE (IF star <= MathRound(Head(facets).name) /\ MathRound(Head(facets).name) <= m
        THEN Head(facets).count ELSE 0) + AtLeast(Tail(facets), star, m)

Emitted(star) ==
  \E i \in 1..Len(rendered.items) : rendered.items[i].value = String(star)

Searches(log) == {i \in 1..Len(log) : log[i].fn = "search"}

\* C1: from an empty refinement set, refine(T) followed by refine(T) leaves
\* the refinement set empty, for any value T: a refine(T) entered in the
\* state refine(T) leaves behind when started empty ends with no refinement.
C1_ToggleInvolution ==
  (/\ call.op = "refine"
   /\ call.pre = ToggleRefinement(NewHelper(<<>>), call.arg, max).refs)
    => refinements = <<>>

\* C2: for every snapshot S and rating value v (1..max), the state
\* createURL(S)(v) hands to the URL builder is the refinement state refine(v)
\* produces when the helper's refinement state is S.
C2_URLIsNextState ==
  (call.op = "createURL" /\ Number(call.arg) \in 1..max)
    => urlArg = ToggleRefinement(NewHelper(urlState), call.arg, max).refs

C4_BucketList ==
  call.op = "render"
    => LET items == rendered.items
       IN /\ Len(items) <= max - 1
          /\ \A i \in 1..Len(items) :
                \E k \in 1..(max - 1) : items[i].value = String(k)
          /\ \A i, j \in 1..Len(items) :
                i < j => Number(items[i].value) > Number(items[j].value)

C4_Witness ==
  call.op = "render" /\ max >= 3 /\ Len(rendered.items) = max - 1

C6_OneSearchLast ==
  call.op = "refine"
    => /\ Searches(helperLog) = {Len(helperLog)}
       /\ helperLog[1].fn = "clearRefinements"
       /\ \A i \in 2..(Len(helperLog) - 1) :
            helperLog[i].fn = "addDisjunctiveFacetRefinement"
       /\ helperLog[Len(helperLog)].refs = refinements
       /\ helperLog[Len(helperLog)].refs = helperLog[Len(helperLog) - 1].refs

C6_Witness ==
  call.op = "refine" /\ Len(helperLog) >= 4

\* C7: init, render and the createURL closure leave the refinement set
\* unchanged and issue no search.
C7_OnlyRefineMutates ==
  call.op \in {"init", "render", "createURL"}
    => refinements = call.pre /\ helperLog = <<>>

C7_Witness ==
  /\ call.op = "createURL"
  /\ refinements # <<>>
  /\ urlArg # refinements

\* C8: the derived active threshold is the minimum refinement value, and is
\* undefined exactly when no refinement is applied.
C8_MinimumValue ==
  /\ ActiveStar = Undefined <=> refinements = <<>>
  /\ refinements # <<>>
       => /\ ActiveStar \in Values(refinements)
          /\ \A v \in Values(refinements) : ActiveStar <= v

\* C9: each emitted bucket's count is the sum of the counts of the facets
\* whose rounded value lies between its threshold and max.
C9_CumulativeCount ==
  call.op = "render"
    => \A i \in 1..Len(rendered.items) :
         rendered.items[i].count =
           AtLeast(results.facets, Number(rendered.items[i].value), max)

C9_Witness ==
  /\ call.op = "render"
  /\ \E i \in 1..Len(rendered.items) : rendered.items[i].count >= 2
  /\ \E i \in 1..Len(rendered.items) : rendered.items[i].count = 1

\* C10: the refinement set is empty or exactly T, T + 1, ..., max for one
\* T, and at most one emitted bucket is refined.
C10_ContiguousRange ==
  /\ \/ refinements = <<>>
     \/ \E T \in 0..max : refinements = RangeFrom(T, max)
  /\ call.op = "render"
       => Cardinality({i \in 1..Len(rendered.items) :
                        rendered.items[i].isRefined}) <= 1

C10_Witness ==
  /\ call.op = "render"
  /\ max >= 3
  /\ refinements = RangeFrom(2, max)
  /\ \E i \in 1..Len(rendered.items) : rendered.items[i].isRefined

====
